---- MODULE Spec2Model ----
(***************************************************************************)
(* Emotion-driven code review assistant (emotion_code_reviewer.py).        *)
(* Strings are sequences of one-character strings, so that strip, split,   *)
(* join, lower and the three regular expressions are computed character by *)
(* character as the Python code computes them.                             *)
(***************************************************************************)
EXTENDS Integers, Sequences, FiniteSets, TLC

VARIABLES pc, args, code_text, commit_message, developer_name, lines, idx,
          context, origin, text_for_analysis, combined_text, emotion_result,
          emotion_analysis, feedback, report, stdout, calls, raised

vars == <<pc, args, code_text, commit_message, developer_name, lines, idx,
          context, origin, text_for_analysis, combined_text, emotion_result,
          emotion_analysis, feedback, report, stdout, calls, raised>>

\* ------------------------------------------------------------------ bounds
\* Most lines a reviewed file holds.
MaxLines == 2
\* Most comments / variables / TODO items of a directly built CodeContext.
MaxComments == 2
MaxVars == 4
MaxTodo == 4

\* --------------------------------------------------------------- characters
Min(S) == CHOOSE x \in S : \A y \in S : x <= y
Max(S) == CHOOSE x \in S : \A y \in S : x >= y

\* str.strip() and the regex class \s
SpaceChars == {" ", "\t", "\n", "\r", "\f"}
IsSpace(c) == c \in SpaceChars

UpperLetters == <<"A","B","C","D","E","F","G","H","I","J","K","L","M",
                  "N","O","P","Q","R","S","T","U","V","W","X","Y","Z">>
LowerLetters == <<"a","b","c","d","e","f","g","h","i","j","k","l","m",
                  "n","o","p","q","r","s","t","u","v","w","x","y","z">>
Digits == {"0","1","2","3","4","5","6","7","8","9"}

\* the regex class \w
WordChars == {UpperLetters[i] : i \in DOMAIN UpperLetters}
             \cup {LowerLetters[i] : i \in DOMAIN LowerLetters}
             \cup Digits \cup {"_"}
IsWord(c) == c \in WordChars

\* the regex class [#/]
MarkerChars == {"#", "/"}

LowerChar(c) ==
    IF \E i \in DOMAIN UpperLetters : c = UpperLetters[i]
    THEN LowerLetters[CHOOSE i \in DOMAIN UpperLetters : c = UpperLetters[i]]
    ELSE c

\* str.lower()
LowerStr(s) == [i \in 1..Len(s) |-> LowerChar(s[i])]

\* str.strip()
Strip(s) ==
    LET ns == {i \in 1..Len(s) : ~IsSpace(s[i])}
    IN  IF ns = {} THEN <<>> ELSE SubSeq(s, Min(ns), Max(ns))

\* str.startswith(p)
StartsWith(s, p) == Len(s) >= Len(p) /\ SubSeq(s, 1, Len(p)) = p

\* sub in s
Contains(s, sub) ==
    \E i \in 1..(Len(s) - Len(sub) + 1) : SubSeq(s, i, i + Len(sub) - 1) = sub

\* length of the longest run of characters of a class starting at position i
RunLen(s, i, class) ==
    LET stop == {j \in i..Len(s) : s[j] \notin class}
    IN  IF stop = {} THEN Len(s) - i + 1 ELSE Min(stop) - i

\* str.split('\n')
RECURSIVE Split(_)
Split(s) ==
    LET nl == {i \in 1..Len(s) : s[i] = "\n"}
    IN  IF nl = {} THEN <<s>>
        ELSE <<SubSeq(s, 1, Min(nl) - 1)>> \o Split(SubSeq(s, Min(nl) + 1, Len(s)))

\* sep.join(parts)
RECURSIVE Join(_, _)
Join(parts, sep) ==
    IF parts = <<>> THEN <<>>
    ELSE IF Len(parts) = 1 THEN parts[1]
    ELSE parts[1] \o sep \o Join(Tail(parts), sep)

\* --------------------------------------------------- extract_code_context
\* line.startswith('#') or line.startswith('//')
IsCommentLine(line) == StartsWith(line, <<"#">>) \/ StartsWith(line, <<"/","/">>)

\* re.sub(r'^[#/]+\s*', '', line)
CommentBody(line) ==
    LET m == RunLen(line, 1, MarkerChars)
        w == RunLen(line, m + 1, SpaceChars)
    IN  IF m = 0 THEN line ELSE SubSeq(line, m + w + 1, Len(line))

TODO_WORD == <<"t","o","d","o">>
FIXME_WORD == <<"f","i","x","m","e">>

\* the TODO test without lower()
IsTodoCaseSensitive(comment) ==
    Contains(comment, TODO_WORD) \/ Contains(comment, FIXME_WORD)

\* 'todo' in comment.lower() or 'fixme' in comment.lower()
IsTodo(comment) ==
    Contains(LowerStr(comment), TODO_WORD) \/ Contains(LowerStr(comment), FIXME_WORD)

\* re.search(r'def\s+(\w+)', line): the captured names, none or one
FuncMatch(line) ==
    LET hits == {i \in 1..(Len(line) - 2) :
                    /\ SubSeq(line, i, i + 2) = <<"d","e","f">>
                    /\ RunLen(line, i + 3, SpaceChars) >= 1
                    /\ RunLen(line, i + 3 + RunLen(line, i + 3, SpaceChars), WordChars) >= 1}
    IN  IF hits = {} THEN <<>>
        ELSE LET i == Min(hits)
                 b == i + 3 + RunLen(line, i + 3, SpaceChars)
             IN  <<SubSeq(line, b, b + RunLen(line, b, WordChars) - 1)>>

\* re.search(r'^(\w+)\s*=', line): the captured names, none or one
VarMatch(line) ==
    LET w == RunLen(line, 1, WordChars)
        e == w + RunLen(line, w + 1, SpaceChars) + 1
    IN  IF w >= 1 /\ e <= Len(line) /\ line[e] = "=" THEN <<SubSeq(line, 1, w)>>
        ELSE <<>>

\* ------------------------------------------------------------ main: --demo
sample_code ==
    <<>> \o <<"\n">> \o
    <<"#"," ","T","h","i","s"," ","i","s"," ","a"," ","t","e","r","r","i","b","l","e"," ","h","a","c","k"," ","b","u","t"," ","I"," ","c","a","n","'","t"," ","f","i","g","u","r","e"," ","o","u","t"," ","t","h","e"," ","r","i","g","h","t"," ","w","a","y">> \o <<"\n">> \o
    <<"d","e","f"," ","c","a","l","c","u","l","a","t","e","_","s","t","u","f","f","(","x",","," ","y",")",":">> \o <<"\n">> \o
    <<" "," "," "," ","#"," ","T","O","D","O",":"," ","f","i","x"," ","t","h","i","s"," ","m","e","s","s"," ","l","a","t","e","r">> \o <<"\n">> \o
    <<" "," "," "," ","#"," ","I"," ","h","a","t","e"," ","t","h","i","s"," ","f","u","n","c","t","i","o","n",","," ","i","t","'","s"," ","s","o"," ","c","o","n","f","u","s","i","n","g">> \o <<"\n">> \o
    <<" "," "," "," ","r","e","s","u","l","t"," ","="," ","x"," ","*"," ","y"," ","+"," ","4","2"," "," ","#"," ","w","h","y"," ","4","2","?"," ","I"," ","h","a","v","e"," ","n","o"," ","i","d","e","a"," ","a","n","y","m","o","r","e">> \o <<"\n">> \o
    <<" "," "," "," ","r","e","t","u","r","n"," ","r","e","s","u","l","t">> \o <<"\n">> \o
    <<>> \o <<"\n">> \o
    <<"#"," ","A","n","o","t","h","e","r"," ","T","O","D","O",":"," ","r","e","f","a","c","t","o","r"," ","e","v","e","r","y","t","h","i","n","g">> \o <<"\n">> \o
    <<"d","e","f"," ","m","a","i","n","(",")",":">> \o <<"\n">> \o
    <<" "," "," "," ","#"," ","T","h","i","s"," ","p","r","o","b","a","b","l","y"," ","w","o","n","'","t"," ","w","o","r","k"," ","b","u","t"," ","w","h","a","t","e","v","e","r">> \o <<"\n">> \o
    <<" "," "," "," ","a"," ","="," ","5">> \o <<"\n">> \o
    <<" "," "," "," ","b"," ","="," ","1","0">> \o <<"\n">> \o
    <<" "," "," "," ","p","r","i","n","t","(","c","a","l","c","u","l","a","t","e","_","s","t","u","f","f","(","a",","," ","b",")",")"," "," ","#"," ","f","i","n","g","e","r","s"," ","c","r","o","s","s","e","d">> \o <<"\n">> \o
    <<>>

commit_msg ==
    <<"u","g","h","h","h"," ","f","i","x","e","d"," ","t","h","e"," ">> \o
    <<"b","u","g"," ","b","u","t"," ","c","r","e","a","t","e","d"," ">> \o
    <<"3"," ","m","o","r","e"," ","p","r","o","b","l","e","m","s",".">> \o
    <<".","."," ","w","h","y"," ","i","s"," ","c","o","d","i","n","g">> \o
    <<" ","s","o"," ","h","a","r","d"," ","t","o","d","a","y">>

\* ------------------------------------------------------------------ values
ANGER == <<"a","n","g","e","r">>
FRUSTRATION == <<"f","r","u","s","t","r","a","t","i","o","n">>
JOY == <<"j","o","y">>
SADNESS == <<"s","a","d","n","e","s","s">>
NEUTRAL == <<"n","e","u","t","r","a","l">>
FEAR == <<"f","e","a","r">>
POSITIVE == <<"P","O","S","I","T","I","V","E">>
NEGATIVE == <<"N","E","G","A","T","I","V","E">>
DEVELOPER == <<"D","e","v","e","l","o","p","e","r">>
DEMO_DEVELOPER == <<"D","e","m","o"," ","D","e","v","e","l","o","p","e","r">>

\* a name not yet bound
None == [none |-> TRUE]

\* {'emotion': 'neutral', 'sentiment': 'neutral', 'confidence': 0.5}
NeutralDefault == [emotion |-> NEUTRAL, sentiment |-> NEUTRAL, confidence |-> "0.5"]

EmptyContext == [comments |-> <<>>, functions |-> <<>>, variables |-> <<>>, todo_items |-> <<>>]

\* what the two pipelines may answer: [{'label': ..., 'score': ...}]
EmotionOutputs == {[label |-> l, score |-> "0.9"] : l \in {ANGER, JOY, SADNESS, NEUTRAL}}
SentimentOutputs == {[label |-> l, score |-> "0.9"] : l \in {POSITIVE, NEGATIVE}}

\* ------------------------------------------------------------------ inputs
SeqsUpTo(S, n) == UNION {[1..k -> S] : k \in 0..n}

LinePool == {
    <<>>,
    <<"#">>,
    <<"#"," ","d","e","f"," ","f","o","o">>,
    <<" "," "," "," ","a"," ","="," ","5">>,
    <<"x"," ","="," ","5">>,
    <<"#"," ","T","O","D","O",":"," ","f","i","x">>,
    <<"/","/"," ","F","i","x","M","e">>,
    <<"d","e","f"," ","f","(","x",")",":">>,
    <<"y","=","1"," "," ","#"," ","h","a","c","k">> }

\* the files open() can read: one to MaxLines lines joined by newlines
Texts == {Join(ls, <<"\n">>) : ls \in SeqsUpTo(LinePool, MaxLines) \ {<<>>}}

\* Most lines of a file made of TodoLinePool lines.
MaxTodoLines == 4

TodoLinePool == {
    <<"#"," ","T","O","D","O",":"," ","f","i","x">>,
    <<"#"," ","o","k">>,
    <<"t","o","d","o"," ","="," ","1">> }

TodoTexts == {Join(ls, <<"\n">>) : ls \in SeqsUpTo(TodoLinePool, MaxTodoLines) \ {<<>>}}

CommitPool == {<<>>, <<"w","i","p">>}
FilePool == {<<>>, <<<<>>>>, <<<<"m","y","_","s","c","r","i","p","t",".","p","y">>>>}

\* --------------------------------------------------- extract_code_context
\* every entry inserted at the front of its list instead of appended
ExtractStepPrepend(ctx, rawline) ==
    LET line == Strip(rawline)
        isc == IsCommentLine(line)
        comment == CommentBody(line)
    IN  [comments   |-> IF isc THEN <<comment>> \o ctx.comments ELSE ctx.comments,
         todo_items |-> IF isc /\ IsTodo(comment) THEN <<comment>> \o ctx.todo_items
                        ELSE ctx.todo_items,
         functions  |-> FuncMatch(line) \o ctx.functions,
         variables  |-> VarMatch(line) \o ctx.variables]

\* the TODO test made on every line, comment or not
ExtractStepTodoAnyLine(ctx, rawline) ==
    LET line == Strip(rawline)
        isc == IsCommentLine(line)
        comment == CommentBody(line)
    IN  [comments   |-> IF isc THEN Append(ctx.comments, comment) ELSE ctx.comments,
         todo_items |-> IF IsTodo(comment) THEN Append(ctx.todo_items, comment)
                        ELSE ctx.todo_items,
         functions  |-> ctx.functions \o FuncMatch(line),
         variables  |-> ctx.variables \o VarMatch(line)]

\* the variable pattern applied to the line as read, before strip()
ExtractStepColumnZero(ctx, rawline) ==
    LET line == Strip(rawline)
        isc == IsCommentLine(line)
        comment == CommentBody(line)
    IN  [comments   |-> IF isc THEN Append(ctx.comments, comment) ELSE ctx.comments,
         todo_items |-> IF isc /\ IsTodo(comment) THEN Append(ctx.todo_items, comment)
                        ELSE ctx.todo_items,
         functions  |-> ctx.functions \o FuncMatch(line),
         variables  |-> ctx.variables \o VarMatch(rawline)]

\* one pass of the loop body for one line of the split text
ExtractStep(ctx, rawline) ==
    LET line == Strip(rawline)
        isc == IsCommentLine(line)
        comment == CommentBody(line)
    IN  [comments   |-> IF isc THEN Append(ctx.comments, comment) ELSE ctx.comments,
         todo_items |-> IF isc /\ IsTodo(comment) THEN Append(ctx.todo_items, comment)
                        ELSE ctx.todo_items,
         functions  |-> ctx.functions \o FuncMatch(line),
         variables  |-> ctx.variables \o VarMatch(line)]

\* the line number behind every entry a pass appends
OriginStep(org, ctx, ctx2, i) ==
    [k \in DOMAIN org |-> IF Len(ctx2[k]) > Len(ctx[k]) THEN Append(org[k], i) ELSE org[k]]

\* ------------------------------------------------ analyze_developer_emotion
\* a handler that hands back what the try block had computed before the failure
ExceptResultPartial(partial) ==
    IF partial = None THEN NeutralDefault
    ELSE [emotion |-> LowerStr(partial.label), emotion_confidence |-> partial.score]

\* except Exception as e: what the handler returns, whatever was computed so far
ExceptResult(partial) == NeutralDefault

\* ------------------------------------------------------------- review_code
\* the conditional read as binding to [commit_message] alone
TextForAnalysisMisparsed(comments, commit) ==
    comments \o (IF commit /= <<>> THEN <<commit>> ELSE comments)

\* context['comments'] + [commit_message] if commit_message else context['comments']
TextForAnalysis(comments, commit) ==
    IF commit /= <<>> THEN comments \o <<commit>> ELSE comments

\* ------------------------------------------- generate_personalized_feedback
\* emotion_analysis.get('emotion', 'neutral')
GetEmotion(ea) == IF "emotion" \in DOMAIN ea THEN ea.emotion ELSE NEUTRAL

INSIGHT_ANNOYED == [msg |-> "Sounds like your kinda annoyed in your comments"]
INSIGHT_JOY == [msg |-> "Really good vibe in your code!"]
INSIGHT_SAD == [msg |-> "Looks like your having a hard time coding"]
NOTE_REMEMBER == [msg |-> "Remeber: everyone good at this was bad once"]
SUGGEST_COMMENTS == [msg |-> "Maybe put more comments in to say what your doing"]
REC_SELF_DEPRECATION == [msg |-> "I see you saying bad things about your code"]

EmotionalInsights(emotion) ==
    IF emotion \in {ANGER, FRUSTRATION} THEN <<INSIGHT_ANNOYED>>
    ELSE IF emotion = JOY THEN <<INSIGHT_JOY>>
    ELSE IF emotion = SADNESS THEN <<INSIGHT_SAD>>
    ELSE <<>>

\* the motivational note given for anger alone
MotivationalNotesAngerOnly(emotion) ==
    IF emotion = ANGER THEN <<NOTE_REMEMBER>> ELSE <<>>

MotivationalNotes(emotion) ==
    IF emotion \in {ANGER, FRUSTRATION} THEN <<NOTE_REMEMBER>> ELSE <<>>

TodoThreshold == 3

\* the TODO suggestion given from 3 items on
CodeSuggestionsAtThree(ctx) ==
    (IF Len(ctx.comments) = 0 THEN <<SUGGEST_COMMENTS>> ELSE <<>>)
    \o (IF Len(ctx.todo_items) >= TodoThreshold
        THEN <<[msg |-> "You got N TODO stuff to do", count |-> Len(ctx.todo_items)]>>
        ELSE <<>>)

CodeSuggestions(ctx) ==
    (IF Len(ctx.comments) = 0 THEN <<SUGGEST_COMMENTS>> ELSE <<>>)
    \o (IF Len(ctx.todo_items) > TodoThreshold
        THEN <<[msg |-> "You got N TODO stuff to do", count |-> Len(ctx.todo_items)]>>
        ELSE <<>>)

BadWords == {<<"h","a","c","k">>, <<"d","i","r","t","y">>, <<"t","e","r","r","i","b","l","e">>, <<"b","r","o","k","e","n">>}

\* one recommendation for every word found
SelfDeprecationRecsPerWord(comments) ==
    [i \in 1..Cardinality({word \in BadWords :
                               Contains(LowerStr(Join(comments, <<" ">>)), word)})
        |-> REC_SELF_DEPRECATION]

\* any(word in ' '.join(comments).lower() for word in [...])
SelfDeprecationRecs(comments) ==
    IF \E word \in BadWords : Contains(LowerStr(Join(comments, <<" ">>)), word)
    THEN <<REC_SELF_DEPRECATION>> ELSE <<>>

ShortLen == 2
ShortCount == 2
ShortShown == 3

\* len(v) < 2 in place of len(v) <= 2
ShortVarsStrict(variables) == SelectSeq(variables, LAMBDA v : Len(v) < ShortLen)

\* [v for v in variables if len(v) <= 2]
ShortVars(variables) == SelectSeq(variables, LAMBDA v : Len(v) <= ShortLen)

ShortVarRecs(variables) ==
    LET short_vars == ShortVars(variables)
    IN  IF variables /= <<>> /\ Len(short_vars) > ShortCount
        THEN <<[msg |-> "Try to use longer names for variables like",
                names |-> Join(SubSeq(short_vars, 1, Min({ShortShown, Len(short_vars)})),
                               <<",", " ">>)]>>
        ELSE <<>>

GeneratePersonalizedFeedback(code_context, ea, commit) ==
    [emotional_insights        |-> EmotionalInsights(GetEmotion(ea)),
     code_suggestions          |-> CodeSuggestions(code_context),
     motivational_notes        |-> MotivationalNotes(GetEmotion(ea)),
     technical_recommendations |-> SelfDeprecationRecs(code_context.comments)
                                   \o ShortVarRecs(code_context.variables)]

\* ------------------------------------------------------------ print_report
ReportLines(rep) ==
    <<"banner", "EMOTIONAL STATE ANALYSIS", "CODE METRICS">>
    \o (IF rep.feedback.emotional_insights /= <<>> THEN <<"EMOTIONAL INSIGHTS">> ELSE <<>>)
    \o (IF rep.feedback.code_suggestions /= <<>> THEN <<"CODE SUGGESTIONS">> ELSE <<>>)
    \o (IF rep.feedback.technical_recommendations /= <<>>
        THEN <<"TECHNICAL RECOMMENDATIONS">> ELSE <<>>)
    \o (IF rep.feedback.motivational_notes /= <<>> THEN <<"MOTIVATIONAL NOTES">> ELSE <<>>)
    \o <<"banner">>

\* ------------------------------------------------------------------- state
Truthy(opt) == opt /= <<>> /\ opt[1] /= <<>>

Init ==
    /\ pc = "start"
    /\ args \in [demo : BOOLEAN, file : FilePool, commit : CommitPool, name : {DEVELOPER}]
    /\ code_text = <<>>
    /\ commit_message = <<>>
    /\ developer_name = <<>>
    /\ lines = <<>>
    /\ idx = 1
    /\ context = EmptyContext
    /\ origin = EmptyContext
    /\ text_for_analysis = <<>>
    /\ combined_text = <<>>
    /\ emotion_result = None
    /\ emotion_analysis = None
    /\ feedback = None
    /\ report = None
    /\ stdout = <<>>
    /\ calls = [emotion |-> 0, sentiment |-> 0]
    /\ raised = <<>>

\* EmotionCodeReviewer(): both pipelines are loaded, outside any try
Construct ==
    /\ pc = "start"
    /\ \E outcome \in {"ok", "emotion_load_fails", "sentiment_load_fails"} :
          IF outcome = "ok"
          THEN /\ stdout' = stdout \o <<"Loading emotion analysis models...", "Models loaded good!">>
               /\ pc' = "dispatch"
               /\ UNCHANGED raised
          ELSE /\ stdout' = Append(stdout, "Loading emotion analysis models...")
               /\ pc' = "crashed"
               /\ raised' = Append(raised, [at |-> outcome, caught |-> FALSE])
    /\ UNCHANGED <<args, code_text, commit_message, developer_name, lines, idx, context,
                   origin, text_for_analysis, combined_text, emotion_result,
                   emotion_analysis, feedback, report, calls>>

\* if args.demo:
RunDemo ==
    /\ pc = "dispatch"
    /\ args.demo
    /\ stdout' = Append(stdout, "Running demo with emotionally-charged sample code...")
    /\ code_text' = sample_code
    /\ commit_message' = commit_msg
    /\ developer_name' = DEMO_DEVELOPER
    /\ pc' = "review"
    /\ UNCHANGED <<args, lines, idx, context, origin, text_for_analysis, combined_text,
                   emotion_result, emotion_analysis, feedback, report, calls, raised>>

\* elif args.file: open and read it, the file being one of texts
ReadFileFrom(texts) ==
    /\ pc = "dispatch"
    /\ ~args.demo
    /\ Truthy(args.file)
    /\ \/ /\ raised' = Append(raised, [at |-> "FileNotFoundError", caught |-> TRUE])
          /\ stdout' = Append(stdout, "File not found!")
          /\ pc' = "done"
          /\ UNCHANGED <<code_text, commit_message, developer_name>>
       \/ /\ raised' = Append(raised, [at |-> "read", caught |-> TRUE])
          /\ stdout' = Append(stdout, "Error reading file")
          /\ pc' = "done"
          /\ UNCHANGED <<code_text, commit_message, developer_name>>
       \/ /\ \E text \in texts : code_text' = text
          /\ commit_message' = args.commit
          /\ developer_name' = args.name
          /\ pc' = "review"
          /\ UNCHANGED <<stdout, raised>>
    /\ UNCHANGED <<args, lines, idx, context, origin, text_for_analysis, combined_text,
                   emotion_result, emotion_analysis, feedback, report, calls>>

ReadFile == ReadFileFrom(Texts)

\* the same, on a file of comment, TODO and assignment lines
ReadFileTodo == ReadFileFrom(TodoTexts)

\* else: usage
Usage ==
    /\ pc = "dispatch"
    /\ ~args.demo
    /\ ~Truthy(args.file)
    /\ stdout' = stdout \o <<"Please provide --file or use --demo", "Example", "Example2">>
    /\ pc' = "done"
    /\ UNCHANGED <<args, code_text, commit_message, developer_name, lines, idx, context,
                   origin, text_for_analysis, combined_text, emotion_result,
                   emotion_analysis, feedback, report, calls, raised>>

\* review_code: entry, context = {...}, lines = code_text.split('\n')
ReviewStart ==
    /\ pc = "review"
    /\ stdout' = Append(stdout, "Looking at code")
    /\ context' = EmptyContext
    /\ origin' = EmptyContext
    /\ lines' = Split(code_text)
    /\ idx' = 1
    /\ pc' = "extract"
    /\ UNCHANGED <<args, code_text, commit_message, developer_name, text_for_analysis,
                   combined_text, emotion_result, emotion_analysis, feedback, report,
                   calls, raised>>

\* for line in lines: one pass
ExtractLine ==
    /\ pc = "extract"
    /\ idx <= Len(lines)
    /\ context' = ExtractStep(context, lines[idx])
    /\ origin' = OriginStep(origin, context, context', idx)
    /\ idx' = idx + 1
    /\ UNCHANGED <<pc, args, code_text, commit_message, developer_name, lines,
                   text_for_analysis, combined_text, emotion_result, emotion_analysis,
                   feedback, report, stdout, calls, raised>>

\* return context; text_for_analysis = ...
BuildText ==
    /\ pc = "extract"
    /\ idx > Len(lines)
    /\ text_for_analysis' = TextForAnalysis(context.comments, commit_message)
    /\ pc' = "analyze"
    /\ UNCHANGED <<args, code_text, commit_message, developer_name, lines, idx, context,
                   origin, combined_text, emotion_result, emotion_analysis, feedback,
                   report, stdout, calls, raised>>

\* analyze_developer_emotion: if not text_elements ... combined_text = ' '.join(...)
AnalyzeEnter ==
    /\ pc = "analyze"
    /\ IF text_for_analysis = <<>>
       THEN /\ emotion_analysis' = NeutralDefault
            /\ pc' = "feedback"
            /\ UNCHANGED combined_text
       ELSE /\ combined_text' = Join(text_for_analysis, <<" ">>)
            /\ pc' = "emotion_call"
            /\ UNCHANGED emotion_analysis
    /\ UNCHANGED <<args, code_text, commit_message, developer_name, lines, idx, context,
                   origin, text_for_analysis, emotion_result, feedback, report, stdout,
                   calls, raised>>

\* emotion_result = self.emotion_classifier(combined_text)[0], inside the try
EmotionCall ==
    /\ pc = "emotion_call"
    /\ calls' = [calls EXCEPT !.emotion = @ + 1]
    /\ \/ /\ \E r \in EmotionOutputs : emotion_result' = r
          /\ pc' = "sentiment_call"
          /\ UNCHANGED <<emotion_analysis, stdout, raised>>
       \/ /\ raised' = Append(raised, [at |-> "emotion_classifier", caught |-> TRUE])
          /\ stdout' = Append(stdout, "Analysis error")
          /\ emotion_analysis' = ExceptResult(emotion_result)
          /\ pc' = "feedback"
          /\ UNCHANGED emotion_result
    /\ UNCHANGED <<args, code_text, commit_message, developer_name, lines, idx, context,
                   origin, text_for_analysis, combined_text, feedback, report>>

\* sentiment_result = self.sentiment_analyzer(combined_text)[0]; return {...}
SentimentCall ==
    /\ pc = "sentiment_call"
    /\ calls' = [calls EXCEPT !.sentiment = @ + 1]
    /\ \/ /\ \E s \in SentimentOutputs :
                emotion_analysis' = [emotion              |-> LowerStr(emotion_result.label),
                                     emotion_confidence   |-> emotion_result.score,
                                     sentiment            |-> LowerStr(s.label),
                                     sentiment_confidence |-> s.score]
          /\ UNCHANGED <<stdout, raised>>
       \/ /\ raised' = Append(raised, [at |-> "sentiment_analyzer", caught |-> TRUE])
          /\ stdout' = Append(stdout, "Analysis error")
          /\ emotion_analysis' = ExceptResult(emotion_result)
    /\ pc' = "feedback"
    /\ UNCHANGED <<args, code_text, commit_message, developer_name, lines, idx, context,
                   origin, text_for_analysis, combined_text, emotion_result, feedback,
                   report>>

\* feedback = self.generate_personalized_feedback(context, emotion_analysis, commit_message)
GenerateFeedback ==
    /\ pc = "feedback"
    /\ feedback' = GeneratePersonalizedFeedback(context, emotion_analysis, commit_message)
    /\ pc' = "report"
    /\ UNCHANGED <<args, code_text, commit_message, developer_name, lines, idx, context,
                   origin, text_for_analysis, combined_text, emotion_result,
                   emotion_analysis, report, stdout, calls, raised>>

\* report = {...}; return report
AssembleReport ==
    /\ pc = "report"
    /\ report' = [developer        |-> developer_name,
                  timestamp        |-> "now",
                  emotion_analysis |-> emotion_analysis,
                  code_metrics     |-> [comments_count  |-> Len(context.comments),
                                        functions_count |-> Len(context.functions),
                                        todo_count      |-> Len(context.todo_items)],
                  feedback         |-> feedback]
    /\ pc' = "print"
    /\ UNCHANGED <<args, code_text, commit_message, developer_name, lines, idx, context,
                   origin, text_for_analysis, combined_text, emotion_result,
                   emotion_analysis, feedback, stdout, calls, raised>>

\* reviewer.print_report(report)
PrintReport ==
    /\ pc = "print"
    /\ stdout' = stdout \o ReportLines(report)
    /\ pc' = "done"
    /\ UNCHANGED <<args, code_text, commit_message, developer_name, lines, idx, context,
                   origin, text_for_analysis, combined_text, emotion_result,
                   emotion_analysis, feedback, report, calls, raised>>

Next ==
    \/ Construct
    \/ RunDemo
    \/ ReadFile
    \/ Usage
    \/ ReviewStart
    \/ ExtractLine
    \/ BuildText
    \/ AnalyzeEnter
    \/ EmotionCall
    \/ SentimentCall
    \/ GenerateFeedback
    \/ AssembleReport
    \/ PrintReport

Spec == Init /\ [][Next]_vars

NextTodo ==
    \/ Construct
    \/ RunDemo
    \/ ReadFileTodo
    \/ Usage
    \/ ReviewStart
    \/ ExtractLine
    \/ BuildText
    \/ AnalyzeEnter
    \/ EmotionCall
    \/ SentimentCall
    \/ GenerateFeedback
    \/ AssembleReport
    \/ PrintReport

SpecTodo == Init /\ [][NextTodo]_vars

\* ----------------------------- generate_personalized_feedback, called directly
CommentPool == {
    <<>>,
    <<"a"," ","h","a","c","k">>,
    <<"T","e","r","r","i","b","l","e"," ","H","A","C","K">>,
    <<"h","a">>,
    <<"c","k">>,
    <<"i","t"," ","i","s"," ","B","r","o","k","e","n">>,
    <<"f","i","n","e">> }

VarPool == {<<"a">>, <<"b">>, <<"x">>, <<"r","e","s","u","l","t">>, <<"a","b">>}

TODO_COMMENT == <<"T","O","D","O",":"," ","l","a","t","e","r">>

JOY_CAPITAL == <<"J","o","y">>

\* emotion_analysis dictionaries a caller can pass, one of them without 'emotion'
AnalysisPool ==
    {NeutralDefault, [sentiment |-> NEUTRAL]}
    \cup {[emotion |-> l, emotion_confidence |-> "0.9",
           sentiment |-> NEGATIVE, sentiment_confidence |-> "0.9"] :
            l \in {ANGER, FRUSTRATION, JOY, SADNESS, FEAR, NEUTRAL, JOY_CAPITAL}}

\* code_context dictionaries a caller can pass
ContextPool ==
    {[comments |-> c, functions |-> <<>>, variables |-> v, todo_items |-> <<>>] :
        c \in SeqsUpTo(CommentPool, MaxComments), v \in {<<>>}}
    \cup {[comments |-> c, functions |-> <<>>, variables |-> v, todo_items |-> <<>>] :
        c \in {<<>>, <<<<"a"," ","h","a","c","k">>>>}, v \in SeqsUpTo(VarPool, MaxVars)}
    \cup {[comments |-> c, functions |-> <<>>, variables |-> <<>>,
           todo_items |-> [i \in 1..n |-> TODO_COMMENT]] :
        c \in {<<>>, <<TODO_COMMENT>>}, n \in 0..MaxTodo}

InitFeedback ==
    /\ pc = "feedback"
    /\ context \in ContextPool
    /\ emotion_analysis \in
          IF context.variables = <<>> THEN AnalysisPool
          ELSE {NeutralDefault}
    /\ commit_message \in CommitPool
    /\ args = [demo |-> FALSE, file |-> <<>>, commit |-> commit_message, name |-> DEVELOPER]
    /\ code_text = <<>>
    /\ developer_name = DEVELOPER
    /\ lines = <<>>
    /\ idx = 1
    /\ origin = EmptyContext
    /\ text_for_analysis = <<>>
    /\ combined_text = <<>>
    /\ emotion_result = None
    /\ feedback = None
    /\ report = None
    /\ stdout = <<>>
    /\ calls = [emotion |-> 0, sentiment |-> 0]
    /\ raised = <<>>

NextFeedback == GenerateFeedback

SpecFeedback == InitFeedback /\ [][NextFeedback]_vars

\* ======================================================================
\* Properties
\* ======================================================================
Range(s) == {s[i] : i \in DOMAIN s}

Count(s, x) == Cardinality({i \in DOMAIN s : s[i] = x})

\* review_code has an emotion analysis in hand
AfterAnalysis == pc \in {"feedback", "report", "print"} \/ (pc = "done" /\ report /= None)

\* review_code has built the classifier input
AfterBuildText == pc \in {"analyze", "emotion_call", "sentiment_call"} \/ AfterAnalysis

\* s starts with an identifier, optional whitespace, then '='
AssignmentAtStart(s) ==
    \E w \in 1..Len(s) : \E e \in (w + 1)..Len(s) :
        /\ \A j \in 1..w : IsWord(s[j])
        /\ \A j \in (w + 1)..(e - 1) : IsSpace(s[j])
        /\ s[e] = "="

\* n is the identifier s starts with
IdentifierAtStart(s, n) ==
    /\ n /= <<>>
    /\ StartsWith(s, n)
    /\ \A j \in 1..Len(n) : IsWord(n[j])
    /\ (Len(s) > Len(n) => ~IsWord(s[Len(n) + 1]))

\* c holds 'todo' or 'fixme' in any mix of cases
HasTodoWord(c) ==
    \E i \in 1..Len(c) :
        \/ i + 3 <= Len(c) /\ LowerStr(SubSeq(c, i, i + 3)) = TODO_WORD
        \/ i + 4 <= Len(c) /\ LowerStr(SubSeq(c, i, i + 4)) = FIXME_WORD

\* C1: no input line is recorded both as a comment and as a function or a
\* variable: a line detected as a comment adds nothing to functions or variables.
C1_CommentLineExclusive ==
    \A i \in Range(origin.comments) :
        i \notin (Range(origin.functions) \cup Range(origin.variables))

\* C2: whenever the text to classify (the classifier input joined with single
\* spaces) is the empty string, neither model is invoked and the analysis is the
\* neutral default.
C2_EmptyTextNeutralNoModel ==
    Join(text_for_analysis, <<" ">>) = <<>> =>
        /\ calls = [emotion |-> 0, sentiment |-> 0]
        /\ (AfterAnalysis => emotion_analysis = NeutralDefault)

AnalysisFailed ==
    \E i \in DOMAIN raised : raised[i].at \in {"emotion_classifier", "sentiment_analyzer"}

\* C3: a failure of either model invocation is caught, a diagnostic is printed,
\* the analysis is exactly the neutral default (never a partial result), and
\* review_code goes on to generate feedback and return a report holding it.
C3_AnalysisFailureRecovered ==
    AnalysisFailed =>
        /\ \A i \in DOMAIN raised : raised[i].caught
        /\ \E k \in DOMAIN stdout : stdout[k] = "Analysis error"
        /\ emotion_analysis = NeutralDefault
        /\ pc \in {"feedback", "report", "print", "done"}
        /\ (pc = "feedback" => ENABLED GenerateFeedback)
        /\ (pc = "report" => feedback /= None /\ ENABLED AssembleReport)
        /\ (pc = "print" => ENABLED PrintReport)
        /\ (pc \in {"print", "done"} =>
                /\ report /= None
                /\ report.emotion_analysis = NeutralDefault
                /\ report.feedback = feedback)

\* the sentiment analyzer failed after the emotion classifier had answered, and
\* the returned report carries the neutral default
C3_Witness ==
    /\ pc = "done"
    /\ \E i \in DOMAIN raised : raised[i].at = "sentiment_analyzer"
    /\ emotion_result /= None
    /\ report /= None
    /\ report.emotion_analysis = NeutralDefault

\* C4: main ends in a clean exit with no uncaught error, whichever flags are
\* given and whatever fails (loading the models included), having printed
\* a message or a report.
C4_MainExitsCleanly ==
    /\ \A i \in DOMAIN raised : raised[i].caught
    /\ (pc \in {"done", "crashed"} => pc = "done" /\ stdout /= <<>>)

\* C5 (as stated): a variable is recorded for a line only when the identifier
\* and '=' start at column zero of the input line; an indented assignment
\* contributes nothing to variables.
C5_VariableOnlyAtColumnZero ==
    \A k \in DOMAIN origin.variables : AssignmentAtStart(lines[origin.variables[k]])

\* C5 (amended): a variable is recorded for a line exactly when the line with
\* its leading and trailing whitespace stripped starts with an identifier,
\* optional whitespace and '='; the entry is that identifier. An indented
\* assignment is recorded.
C5_VariableIffTrimmedAssignment ==
    /\ \A i \in 1..(idx - 1) :
          i <= Len(lines) =>
             ((i \in Range(origin.variables)) <=> AssignmentAtStart(Strip(lines[i])))
    /\ \A k \in DOMAIN origin.variables :
          IdentifierAtStart(Strip(lines[origin.variables[k]]), context.variables[k])

\* the indented line '    a = 5' has put 'a' into variables
C5_Witness ==
    \E k \in DOMAIN origin.variables :
        /\ lines[origin.variables[k]] = <<" "," "," "," ","a"," ","="," ","5">>
        /\ context.variables[k] = <<"a">>

\* C6: after any prefix of the lines, every TODO item is a comment added for
\* the same line, there are no more TODO items than comments, and a comment is
\* a TODO item exactly when its body holds 'todo' or 'fixme' in any case.
C6_TodoItemsAreComments ==
    /\ Len(context.todo_items) <= Len(context.comments)
    /\ \A k \in DOMAIN context.todo_items :
          \E j \in DOMAIN context.comments :
              /\ context.comments[j] = context.todo_items[k]
              /\ origin.comments[j] = origin.todo_items[k]
    /\ \A j \in DOMAIN context.comments :
          (origin.comments[j] \in Range(origin.todo_items)) <=> HasTodoWord(context.comments[j])

\* '// FixMe' became a TODO item beside a comment that is none
C6_Witness ==
    /\ \E k \in DOMAIN context.todo_items : context.todo_items[k] = <<"F","i","x","M","e">>
    /\ Len(context.todo_items) < Len(context.comments)

\* C7: the emotional insight is chosen by the label alone, at most one:
\* anger or frustration give the sympathetic insight and exactly one
\* motivational note, joy the encouraging one, sadness the supportive one, any
\* other label (neutral, or none given) gives none; motivational notes are
\* non-empty exactly for anger and frustration.
C7_InsightByLabel ==
    pc = "report" =>
        LET label == IF "emotion" \in DOMAIN emotion_analysis
                     THEN emotion_analysis.emotion ELSE NEUTRAL
            insights == feedback.emotional_insights
            notes == feedback.motivational_notes
        IN  /\ Len(insights) <= 1
            /\ (label \in {ANGER, FRUSTRATION} =>
                    insights = <<INSIGHT_ANNOYED>> /\ notes = <<NOTE_REMEMBER>>)
            /\ (label = JOY => insights = <<INSIGHT_JOY>>)
            /\ (label = SADNESS => insights = <<INSIGHT_SAD>>)
            /\ (label \notin {ANGER, FRUSTRATION, JOY, SADNESS} => insights = <<>>)
            /\ (notes /= <<>> <=> label \in {ANGER, FRUSTRATION})

\* 'frustration' produced the sympathetic insight and the motivational note
C7_Witness ==
    /\ pc = "report"
    /\ "emotion" \in DOMAIN emotion_analysis
    /\ emotion_analysis.emotion = FRUSTRATION
    /\ feedback.emotional_insights = <<INSIGHT_ANNOYED>>
    /\ feedback.motivational_notes = <<NOTE_REMEMBER>>

\* C8: the classifier input is the extracted comments in order, followed by
\* the commit message as one last element exactly when it is non-empty.
C8_ClassifierInput ==
    AfterBuildText =>
        LET n == Len(context.comments)
        IN  /\ Len(text_for_analysis) = n + (IF commit_message = <<>> THEN 0 ELSE 1)
            /\ SubSeq(text_for_analysis, 1, n) = context.comments
            /\ (commit_message /= <<>> => text_for_analysis[n + 1] = commit_message)

\* two comments and a non-empty commit message gave a three-element input
C8_Witness ==
    /\ pc = "analyze"
    /\ Len(context.comments) = 2
    /\ commit_message = <<"w","i","p">>
    /\ Len(text_for_analysis) = 3

\* C9: the self-deprecation recommendation is appended exactly once when the
\* lowercase single-space join of the comments holds one of 'hack', 'dirty',
\* 'terrible', 'broken', and not at all otherwise.
C9_SelfDeprecationOnce ==
    pc = "report" =>
        Count(feedback.technical_recommendations, REC_SELF_DEPRECATION)
            = IF \E w \in BadWords :
                    Contains(LowerStr(Join(context.comments, <<" ">>)), w)
              THEN 1 ELSE 0

\* two comments holding three of the words gave one recommendation
C9_Witness ==
    /\ pc = "report"
    /\ context.comments = <<<<"a"," ","h","a","c","k">>, <<"T","e","r","r","i","b","l","e"," ","H","A","C","K">>>>
    /\ Count(feedback.technical_recommendations, REC_SELF_DEPRECATION) = 1

\* C10: the variable-naming recommendation is appended exactly when more than
\* 2 entries of variables (repeats counted) have length <= 2, and it lists the
\* first 3 of them in order, joined by ', '.
C10_ShortVariableNames ==
    pc = "report" =>
        LET v == context.variables
            recs == feedback.technical_recommendations
            naming == {i \in DOMAIN recs : "names" \in DOMAIN recs[i]}
            short == {i \in DOMAIN v : Len(v[i]) <= 2}
        IN  IF Cardinality(short) > 2
            THEN LET i1 == Min(short)
                     i2 == Min(short \ {i1})
                     i3 == Min(short \ {i1, i2})
                 IN  /\ Cardinality(naming) = 1
                     /\ \A i \in naming :
                           recs[i].names = v[i1] \o <<",", " ">> \o v[i2] \o <<",", " ">> \o v[i3]
            ELSE naming = {}

\* variables a, b, result, x gave the recommendation 'a, b, x'
C10_Witness ==
    /\ pc = "report"
    /\ context.variables = <<<<"a">>, <<"b">>, <<"r","e","s","u","l","t">>, <<"x">>>>
    /\ \E i \in DOMAIN feedback.technical_recommendations :
          LET r == feedback.technical_recommendations[i]
          IN  "names" \in DOMAIN r /\ r.names = <<"a",","," ","b",","," ","x">>

\* C11: the TODO suggestion is appended exactly when there are more than 3
\* TODO items (not at 3), once, and it names their exact number.
C11_TodoSuggestion ==
    pc = "report" =>
        LET sugg == feedback.code_suggestions
            todo == {i \in DOMAIN sugg : "count" \in DOMAIN sugg[i]}
            n == Len(context.todo_items)
        IN  IF n > 3
            THEN Cardinality(todo) = 1 /\ \A i \in todo : sugg[i].count = n
            ELSE todo = {}

\* four TODO items gave a suggestion naming 4
C11_Witness ==
    /\ pc = "report"
    /\ Len(context.todo_items) = 4
    /\ \E i \in DOMAIN feedback.code_suggestions :
          LET r == feedback.code_suggestions[i]
          IN  "count" \in DOMAIN r /\ r.count = 4

\* C12: each of the four sequences lists its entries in the order of the input
\* lines behind them: every step only appends, at most one entry per sequence,
\* leaves the earlier entries where they were, and the lines behind the
\* entries of a sequence increase strictly.
C12_EntriesInLineOrder ==
    [][\A k \in {"comments", "functions", "variables", "todo_items"} :
          /\ Len(context[k]) <= Len(context'[k])
          /\ Len(context'[k]) <= Len(context[k]) + 1
          /\ SubSeq(context'[k], 1, Len(context[k])) = context[k]
          /\ Len(origin'[k]) = Len(context'[k])
          /\ \A i, j \in DOMAIN origin'[k] : i < j => origin'[k][i] < origin'[k][j]
          /\ \A j \in DOMAIN origin'[k] :
                LET line == Strip(lines'[origin'[k][j]])
                    entry == context'[k][j]
                IN  CASE k = "functions" -> FuncMatch(line) = <<entry>>
                      [] k = "variables" -> VarMatch(line) = <<entry>>
                      [] OTHER -> IsCommentLine(line) /\ CommentBody(line) = entry]_vars

\* two different comments, from line 1 and line 2, stand in that order, and
\* so do two variables
C12_Witness ==
    \/ /\ origin.comments = <<1, 2>>
       /\ context.comments[1] /= context.comments[2]
       /\ origin.todo_items = <<2>>
    \/ /\ origin.variables = <<1, 2>>
       /\ context.variables[1] /= context.variables[2]

\* C13: for a context that extract_code_context produced, the 'add comments'
\* suggestion and the TODO suggestion never both fire in one review, so
\* code_suggestions holds at most one entry.
C13_SuggestionsExclusive ==
    (pc \in {"report", "print", "done"} /\ feedback /= None) =>
        LET sugg == feedback.code_suggestions
        IN  /\ Len(sugg) <= 1
            /\ ~ (/\ \E i \in DOMAIN sugg : sugg[i] = SUGGEST_COMMENTS
                  /\ \E i \in DOMAIN sugg : "count" \in DOMAIN sugg[i])
            /\ (Len(context.todo_items) > 3 => Len(context.comments) > 3)

\* a reviewed file of four TODO comments got the TODO suggestion alone
C13_Witness ==
    /\ pc = "done"
    /\ report /= None
    /\ Len(context.todo_items) = 4
    /\ Len(report.feedback.code_suggestions) = 1
    /\ "count" \in DOMAIN report.feedback.code_suggestions[1]

====
